---- MODULE Spec2Model ----
(***************************************************************************)
(* Moodflo V2 backend (backend/app.py): the session map, the analyze       *)
(* endpoint with its stream/batch reconciliation, and the WebSocket        *)
(* streaming handler.  Every action is one run of a coroutine between two  *)
(* await points: asyncio runs the code between awaits atomically.          *)
(***************************************************************************)
EXTENDS Integers, Sequences, FiniteSets, TLC

\* ---------------------------------------------------------------- bounds
MaxSessions == 2      \* uploads (session ids are fresh uuids, never reused)
MaxCalls == 2         \* analyze requests plus stream connections
TimelineLen == 2      \* samples the producer finds in a recording
MaxInbound == 1       \* inbound messages answered per connection
MaxChunks == 2        \* pieces a dominant emotion string is put together from
MaxGenCalls == 2      \* calls of generate_suggestions on one generator

\* ------------------------------------------------------- program constants
MaxPollAttempts == 15       \* app.py:134  for _ in range(15)
DefaultSampleRate == 16000  \* app.py:191

Ids == 1..MaxSessions
CallIds == 1..MaxCalls
None == 0                   \* a missing dict key / null reference
SuggestionTexts == {"generated", "fallback"}
ErrorMessages == {"cannot decode audio", "out of memory"}
WindowStep == 5              \* seconds between two samples of a recording
SeekTimes == {0, WindowStep + 2}

VARIABLES
    active_sessions,   \* keys of the active_sessions dict           (app.py:44)
    session,           \* the dict object created for each id        (app.py:92)
    files,             \* ids whose uploaded file still exists on disk
    nextId,            \* next fresh session id
    streams,           \* heap of stream_data dicts, addressed by index
    calls,             \* the requests / connections and their positions
    fullCalls,         \* per id: invocations of analyzer_service.analyze_full
    fullOK,            \* per id: invocations of analyze_full that returned
    initCalls,         \* per id: invocations of streaming_service.initialize_stream
    resp,              \* the last response of a single-step HTTP endpoint
    summary,           \* the summary record handed to the insights generator
    insight,           \* the lines of the text the insights generator returned
    gen                \* the insights generator: its attributes, its calls so far

vars == <<active_sessions, session, files, nextId, streams, calls,
          fullCalls, fullOK, initCalls, resp, summary, insight, gen>>

\* what the coordinator's requests and connections never touch
aux == <<resp, summary, insight, gen>>

\* ------------------------------------------------------------ data values
NoResult == [duration |-> 0, timeline |-> <<>>, suggestions |-> "none"]

\* What the Timeline Producer finds in the recording stored at path fp.
MediaTimeline(fp) ==
    [i \in 1..TimelineLen |->
        [time |-> (i - 1) * WindowStep,
         energy |-> 10 * fp + i,
         emotion_raw |-> IF i % 2 = 1 THEN "happy" ELSE "angry",
         category |-> IF i % 2 = 1 THEN "energised" ELSE "stressed"]]

MediaDuration(fp) == TimelineLen * WindowStep + fp

\* analyzer_service.analyze_full(file_path), when it returns
AnalyzeFullResult(fp, text) ==
    [duration |-> MediaDuration(fp), timeline |-> MediaTimeline(fp),
     suggestions |-> text]

\* streaming_service.initialize_stream(file_path), when it returns: the
\* stream_data dict, filled progressively afterwards
InitializeStreamResult(fp) ==
    [duration |-> MediaDuration(fp),
     timestamps |-> <<>>, energy_timeline |-> <<>>,
     emotion_series |-> <<>>, categories |-> <<>>,
     sample_rate |-> DefaultSampleRate,
     is_fully_processed |-> FALSE,
     path |-> fp]

\* streaming_service.build_analysis_from_stream(stream_data, file_path)
BuildAnalysisFromStream(sd, text) ==
    [duration |-> sd.duration,
     timeline |-> [i \in 1..Len(sd.timestamps) |->
                     [time |-> sd.timestamps[i],
                      energy |-> sd.energy_timeline[i],
                      emotion_raw |-> sd.emotion_series[i],
                      category |-> sd.categories[i]]],
     suggestions |-> text]

\* the time axis filled from the wrong timeline field
SynthesizeStream_wrongAxis(results, fp) ==
    [duration |-> results.duration,
     timestamps |-> [i \in 1..Len(results.timeline) |-> results.timeline[i].energy],
     energy_timeline |-> [i \in 1..Len(results.timeline) |-> results.timeline[i].energy],
     emotion_series |-> [i \in 1..Len(results.timeline) |-> results.timeline[i].emotion_raw],
     categories |-> [i \in 1..Len(results.timeline) |-> results.timeline[i].category],
     sample_rate |-> DefaultSampleRate,
     is_fully_processed |-> TRUE,
     path |-> fp]

\* app.py:176-193: stream_data synthesized from the analysis results
SynthesizeStream(results, fp) ==
    [duration |-> results.duration,
     timestamps |-> [i \in 1..Len(results.timeline) |-> results.timeline[i].time],
     energy_timeline |-> [i \in 1..Len(results.timeline) |-> results.timeline[i].energy],
     emotion_series |-> [i \in 1..Len(results.timeline) |-> results.timeline[i].emotion_raw],
     categories |-> [i \in 1..Len(results.timeline) |-> results.timeline[i].category],
     sample_rate |-> DefaultSampleRate,
     is_fully_processed |-> TRUE,
     path |-> fp]

\* app.py:92-97: the record stored by upload
NewSession(fp) ==
    [file_path |-> fp, status |-> "uploaded", analysis_complete |-> FALSE,
     analysis |-> NoResult, stream_data |-> None, error |-> "none"]

Blank ==
    [file_path |-> None, status |-> "none", analysis_complete |-> FALSE,
     analysis |-> NoResult, stream_data |-> None, error |-> "none"]

\* the cache test lost: every call recomputes
CacheHit_never(sess) == FALSE

\* app.py:120: session.get("analysis_complete") and session.get("analysis")
CacheHit(sess) == sess.analysis_complete /\ sess.analysis # NoResult

\* the completion flag read under a wrong key: never seen as set
StreamReady_never(o) == FALSE

\* app.py:135 and 142: stream_data.get("is_fully_processed")
StreamReady(o) == streams[o].is_fully_processed

\* the membership test on a key that is never written
HasStream_never(sess) == FALSE

\* app.py:130 and 252: "stream_data" in session
HasStream(sess) == sess.stream_data # None

\* no response sent yet by get_analysis, get_video, export or delete
NoResp ==
    [op |-> "none", sid |-> None, code |-> 0, status |-> "none",
     message |-> "none", results |-> NoResult]

\* an empty distribution histogram
NoDistribution == [l \in {} |-> 0]

\* no summary handed to the insights generator yet
NoSummary ==
    [dominant_emotion |-> <<>>, psych_risk |-> "none", silence_pct |-> 0,
     distribution |-> NoDistribution, volatility |-> 0]

\* an insights generator that has not been called: client and api_key as
\* __init__ leaves them, the number of calls of generate_suggestions, the text
\* and the path of the call before the last, the path of the last call
\* ("generated" or "fallback"), whether the service raised in it, and whether
\* the call raised to its caller
Generator(client, api_key) ==
    [client |-> client, api_key |-> api_key, ncalls |-> 0, prev |-> <<>>,
     prevpath |-> "none", path |-> "none", failed |-> FALSE, raised |-> FALSE]

NoGen == Generator(FALSE, FALSE)

\* ------------------------------------------------------ requests in flight
\* what receive_json last produced on a connection (app.py:297)
Inbound(type, t) == [type |-> type, time |-> t]

NoInbound == Inbound("none", -1)

IdleCall ==
    [kind |-> "idle", sid |-> None, pc |-> "idle", attempts |-> 0, checks |-> 0,
     sd |-> None,
     code |-> 0, detail |-> "none", results |-> NoResult, out |-> <<>>,
     rx |-> 0, got |-> NoInbound, ignored |-> FALSE, after |-> {}]

Returned == {c \in CallIds : calls[c].pc \in {"returned", "closed"}}

\* requests are numbered in the order they arrive
Arrives(c) ==
    /\ calls[c].kind = "idle"
    /\ \A d \in CallIds : d < c => calls[d].kind # "idle"

Init ==
    /\ active_sessions = {}
    /\ session = [s \in Ids |-> Blank]
    /\ files = {}
    /\ nextId = 1
    /\ streams = <<>>
    /\ calls = [c \in CallIds |-> IdleCall]
    /\ fullCalls = [s \in Ids |-> 0]
    /\ fullOK = [s \in Ids |-> 0]
    /\ initCalls = [s \in Ids |-> 0]
    /\ resp = NoResp
    /\ summary = NoSummary
    /\ insight = <<>>
    /\ gen = NoGen

\* ---------------------------------------------------------------- upload
\* app.py:61-104  POST /api/upload
Upload ==
    /\ nextId <= MaxSessions
    /\ active_sessions' = active_sessions \cup {nextId}
    /\ session' = [session EXCEPT ![nextId] = NewSession(nextId)]
    /\ files' = files \cup {nextId}
    /\ nextId' = nextId + 1
    /\ UNCHANGED <<aux, streams, calls, fullCalls, fullOK, initCalls>>

\* ---------------------------------------------------------------- delete
\* the directory shared by all uploads removed with the session's file
DeleteSession_sharedDir(s) ==
    /\ s \in active_sessions
    /\ files' = {}
    /\ active_sessions' = active_sessions \ {s}
    /\ UNCHANGED <<aux, session, nextId, streams, calls, fullCalls, fullOK, initCalls>>

\* app.py:368-389  DELETE /api/session/{id} on a known id (no await inside)
DeleteSession(s) ==
    /\ s \in active_sessions
    /\ files' = files \ {session[s].file_path}
    /\ active_sessions' = active_sessions \ {s}
    /\ UNCHANGED <<aux, session, nextId, streams, calls, fullCalls, fullOK, initCalls>>

\* --------------------------------------------------------------- analyze
\* app.py:156-167: file check, status update, analyze_full started
RunFull(c, s, me) ==
    IF session[s].file_path \notin files
    THEN /\ calls' = [calls EXCEPT ![c] = [me EXCEPT !.pc = "returned", !.code = 404]]
         /\ UNCHANGED <<session, fullCalls>>
    ELSE /\ session' = [session EXCEPT ![s].status = "analyzing"]
         /\ calls' = [calls EXCEPT ![c] = [me EXCEPT !.pc = "analyzing"]]
         /\ fullCalls' = [fullCalls EXCEPT ![s] = @ + 1]

\* the wait going on for as long as the flag is unset
PollOrRun_unbounded(c, s, me) ==
    LET now == [me EXCEPT !.checks = IF @ <= MaxPollAttempts THEN @ + 1 ELSE @]
    IN  IF StreamReady(me.sd)
        THEN /\ calls' = [calls EXCEPT ![c] = [now EXCEPT !.pc = "building"]]
             /\ UNCHANGED <<session, fullCalls>>
        ELSE /\ calls' = [calls EXCEPT ![c] =
                             [now EXCEPT !.pc = "sleeping",
                                 !.attempts = IF @ < MaxPollAttempts THEN @ + 1 ELSE @]]
             /\ UNCHANGED <<session, fullCalls>>

\* the full analysis started although the flag is found set
PollOrRun_flagIgnored(c, s, me) ==
    LET now == [me EXCEPT !.checks = @ + 1]
    IN  IF StreamReady(me.sd) \/ me.attempts >= MaxPollAttempts
        THEN RunFull(c, s, now)
        ELSE /\ calls' = [calls EXCEPT ![c] =
                             [now EXCEPT !.pc = "sleeping", !.attempts = @ + 1]]
             /\ UNCHANGED <<session, fullCalls>>

\* app.py:134-154 from one evaluation of the flag to the next await: the flag
\* is read at line 135 before each sleep and at line 142 after the last one
PollOrRun(c, s, me) ==
    LET now == [me EXCEPT !.checks = @ + 1]
    IN  IF StreamReady(me.sd)
        THEN /\ calls' = [calls EXCEPT ![c] = [now EXCEPT !.pc = "building"]]
             /\ UNCHANGED <<session, fullCalls>>
        ELSE IF me.attempts < MaxPollAttempts
             THEN /\ calls' = [calls EXCEPT ![c] =
                                  [now EXCEPT !.pc = "sleeping", !.attempts = @ + 1]]
                  /\ UNCHANGED <<session, fullCalls>>
             ELSE RunFull(c, s, now)

\* app.py:114-139/162: POST /api/analyze/{id} up to its first await
AnalyzeBegin(c, s) ==
    /\ Arrives(c)
    /\ LET me == [IdleCall EXCEPT !.kind = "analyze", !.sid = s, !.after = Returned]
       IN  IF s \notin active_sessions
           THEN /\ calls' = [calls EXCEPT ![c] = [me EXCEPT !.pc = "returned", !.code = 404]]
                /\ UNCHANGED <<session, fullCalls>>
           ELSE IF CacheHit(session[s])
           THEN /\ calls' = [calls EXCEPT ![c] =
                               [me EXCEPT !.pc = "returned", !.code = 200,
                                          !.results = session[s].analysis]]
                /\ UNCHANGED <<session, fullCalls>>
           ELSE IF HasStream(session[s])
           THEN PollOrRun(c, s, [me EXCEPT !.sd = session[s].stream_data])
           ELSE RunFull(c, s, me)
    /\ UNCHANGED <<aux, active_sessions, files, nextId, streams, fullOK, initCalls>>

\* app.py:139 -> 134/142: asyncio.sleep(2) returns
AnalyzeWake(c) ==
    /\ calls[c].kind = "analyze" /\ calls[c].pc = "sleeping"
    /\ PollOrRun(c, calls[c].sid, calls[c])
    /\ UNCHANGED <<aux, active_sessions, files, nextId, streams, fullOK, initCalls>>

\* app.py:144-154: build_analysis_from_stream returns
AnalyzeBuilt(c) ==
    /\ calls[c].kind = "analyze" /\ calls[c].pc = "building"
    /\ \E text \in SuggestionTexts :
         LET s == calls[c].sid
             results == BuildAnalysisFromStream(streams[calls[c].sd], text)
         IN  /\ session' = [session EXCEPT ![s].analysis = results,
                                           ![s].analysis_complete = TRUE,
                                           ![s].status = "complete"]
             /\ calls' = [calls EXCEPT ![c].pc = "returned", ![c].code = 200,
                                       ![c].results = results]
    /\ UNCHANGED <<aux, active_sessions, files, nextId, streams, fullCalls, fullOK, initCalls>>

\* the result stored through the session map, putting the id back
AnalyzeFullDone_reinserts(c) ==
    /\ calls[c].kind = "analyze" /\ calls[c].pc = "analyzing"
    /\ \E text \in SuggestionTexts :
         LET s == calls[c].sid
             results == AnalyzeFullResult(session[s].file_path, text)
             synth == ~HasStream(session[s])
         IN  /\ session' = [session EXCEPT
                              ![s].analysis = results,
                              ![s].analysis_complete = TRUE,
                              ![s].status = "complete",
                              ![s].stream_data =
                                  IF synth THEN Len(streams) + 1 ELSE @]
             /\ streams' = IF synth
                           THEN Append(streams, SynthesizeStream(results, session[s].file_path))
                           ELSE streams
             /\ calls' = [calls EXCEPT ![c].pc = "returned", ![c].code = 200,
                                       ![c].results = results]
             /\ fullOK' = [fullOK EXCEPT ![s] = @ + 1]
    /\ active_sessions' = active_sessions \cup {calls[c].sid}
    /\ UNCHANGED <<aux, files, nextId, fullCalls, initCalls>>

\* app.py:167-201: analyze_full returns
AnalyzeFullDone(c) ==
    /\ calls[c].kind = "analyze" /\ calls[c].pc = "analyzing"
    /\ \E text \in SuggestionTexts :
         LET s == calls[c].sid
             results == AnalyzeFullResult(session[s].file_path, text)
             synth == ~HasStream(session[s])
         IN  /\ session' = [session EXCEPT
                              ![s].analysis = results,
                              ![s].analysis_complete = TRUE,
                              ![s].status = "complete",
                              ![s].stream_data =
                                  IF synth THEN Len(streams) + 1 ELSE @]
             /\ streams' = IF synth
                           THEN Append(streams, SynthesizeStream(results, session[s].file_path))
                           ELSE streams
             /\ calls' = [calls EXCEPT ![c].pc = "returned", ![c].code = 200,
                                       ![c].results = results]
             /\ fullOK' = [fullOK EXCEPT ![s] = @ + 1]
    /\ UNCHANGED <<aux, active_sessions, files, nextId, fullCalls, initCalls>>

\* the except branch losing the message of the exception
AnalyzeFullFail_noMessage(c) ==
    /\ calls[c].kind = "analyze" /\ calls[c].pc = "analyzing"
    /\ \E msg \in ErrorMessages :
         LET s == calls[c].sid
         IN  /\ session' = [session EXCEPT ![s].status = "error"]
             /\ calls' = [calls EXCEPT ![c].pc = "returned", ![c].code = 500,
                                       ![c].detail = msg]
    /\ UNCHANGED <<aux, active_sessions, files, nextId, streams, fullCalls, fullOK, initCalls>>

\* app.py:203-206: analyze_full raises an exception whose str() is msg
AnalyzeFullFail(c) ==
    /\ calls[c].kind = "analyze" /\ calls[c].pc = "analyzing"
    /\ \E msg \in ErrorMessages :
         LET s == calls[c].sid
         IN  /\ session' = [session EXCEPT ![s].status = "error",
                                           ![s].error = msg]
             /\ calls' = [calls EXCEPT ![c].pc = "returned", ![c].code = 500,
                                       ![c].detail = msg]
    /\ UNCHANGED <<aux, active_sessions, files, nextId, streams, fullCalls, fullOK, initCalls>>

\* ------------------------------------------------------- progressive stream
\* the streaming service's background processing of one stream_data dict:
\* the next window is appended, and the flag is set with the last one
StreamProgress(o) ==
    /\ o \in 1..Len(streams)
    /\ ~streams[o].is_fully_processed
    /\ LET sd == streams[o]
           n == Len(sd.timestamps) + 1
           p == MediaTimeline(sd.path)[n]
       IN  streams' = [streams EXCEPT ![o] =
               [sd EXCEPT !.timestamps = Append(@, p.time),
                          !.energy_timeline = Append(@, p.energy),
                          !.emotion_series = Append(@, p.emotion_raw),
                          !.categories = Append(@, p.category),
                          !.is_fully_processed = (n = TimelineLen)]]
    /\ UNCHANGED <<aux, active_sessions, session, files, nextId, calls,
                   fullCalls, fullOK, initCalls>>

\* ------------------------------------------------------------- websocket
NoSample == [time |-> -1, energy |-> -1, emotion_raw |-> "none", category |-> "none"]

Msg(type) == [type |-> type, time |-> -1, duration |-> -1, data |-> NoSample]

\* app.py:268-272 and 282-286
ReadyMsg(sd) == [Msg("ready") EXCEPT !.duration = sd.duration]

\* app.py:309-313
UpdateMsg(t, d) == [Msg("update") EXCEPT !.time = t, !.data = d]

\* streaming_service.get_realtime_data(stream_data, current_time): the last
\* window that starts at or before the time, else the nearest one available
GetRealtimeData(sd, t) ==
    LET n == Len(sd.timestamps)
        upto == {i \in 1..n : sd.timestamps[i] <= t}
        i == IF upto = {} THEN 1 ELSE CHOOSE k \in upto : \A j \in upto : j <= k
    IN  IF n = 0 THEN NoSample
        ELSE [time |-> sd.timestamps[i], energy |-> sd.energy_timeline[i],
              emotion_raw |-> sd.emotion_series[i], category |-> sd.categories[i]]

\* the status notice dropped from the cache-miss branch
WsConnect_noStatus(c, s) ==
    /\ Arrives(c)
    /\ LET me == [IdleCall EXCEPT !.kind = "ws", !.sid = s, !.after = Returned]
       IN  IF s \notin active_sessions
           THEN /\ calls' = [calls EXCEPT ![c] =
                       [me EXCEPT !.pc = "closed", !.out = <<Msg("error")>>]]
                /\ UNCHANGED initCalls
           ELSE IF ~HasStream(session[s])
           THEN /\ calls' = [calls EXCEPT ![c] = [me EXCEPT !.pc = "initializing"]]
                /\ initCalls' = [initCalls EXCEPT ![s] = @ + 1]
           ELSE /\ calls' = [calls EXCEPT ![c] =
                       [me EXCEPT !.pc = "ready",
                                  !.out = <<ReadyMsg(streams[session[s].stream_data])>>]]
                /\ UNCHANGED initCalls
    /\ UNCHANGED <<aux, active_sessions, session, files, nextId, streams, fullCalls, fullOK>>

\* app.py:237-257 and 278-289: accept, lookup, cache test, first message
WsConnect(c, s) ==
    /\ Arrives(c)
    /\ LET me == [IdleCall EXCEPT !.kind = "ws", !.sid = s, !.after = Returned]
       IN  IF s \notin active_sessions
           THEN /\ calls' = [calls EXCEPT ![c] =
                       [me EXCEPT !.pc = "closed", !.out = <<Msg("error")>>]]
                /\ UNCHANGED initCalls
           ELSE IF ~HasStream(session[s])
           THEN /\ calls' = [calls EXCEPT ![c] =
                       [me EXCEPT !.pc = "initializing", !.out = <<Msg("status")>>]]
                /\ initCalls' = [initCalls EXCEPT ![s] = @ + 1]
           ELSE /\ calls' = [calls EXCEPT ![c] =
                       [me EXCEPT !.pc = "ready",
                                  !.out = <<ReadyMsg(streams[session[s].stream_data])>>]]
                /\ UNCHANGED initCalls
    /\ UNCHANGED <<aux, active_sessions, session, files, nextId, streams, fullCalls, fullOK>>

\* the initializer's result used for the handshake but never cached
WsInitDone_notStored(c) ==
    /\ calls[c].kind = "ws" /\ calls[c].pc = "initializing"
    /\ LET s == calls[c].sid
           sd == InitializeStreamResult(session[s].file_path)
       IN  /\ streams' = Append(streams, sd)
           /\ calls' = [calls EXCEPT ![c].pc = "ready",
                                     ![c].out = Append(@, ReadyMsg(sd))]
    /\ UNCHANGED <<aux, active_sessions, session, files, nextId, fullCalls, fullOK, initCalls>>

\* the handler also marking the session, as an analysis would
WsInitDone_setsStatus(c) ==
    /\ calls[c].kind = "ws" /\ calls[c].pc = "initializing"
    /\ LET s == calls[c].sid
           sd == InitializeStreamResult(session[s].file_path)
       IN  /\ streams' = Append(streams, sd)
           /\ session' = [session EXCEPT ![s].stream_data = Len(streams) + 1,
                                         ![s].status = "streaming"]
           /\ calls' = [calls EXCEPT ![c].pc = "ready",
                                     ![c].out = Append(@, ReadyMsg(sd))]
    /\ UNCHANGED <<aux, active_sessions, files, nextId, fullCalls, fullOK, initCalls>>

\* app.py:260-277: initialize_stream returns, result cached, ready sent
WsInitDone(c) ==
    /\ calls[c].kind = "ws" /\ calls[c].pc = "initializing"
    /\ LET s == calls[c].sid
           sd == InitializeStreamResult(session[s].file_path)
       IN  /\ streams' = Append(streams, sd)
           /\ session' = [session EXCEPT ![s].stream_data = Len(streams) + 1]
           /\ calls' = [calls EXCEPT ![c].pc = "ready",
                                     ![c].out = Append(@, ReadyMsg(sd))]
    /\ UNCHANGED <<aux, active_sessions, files, nextId, fullCalls, fullOK, initCalls>>

\* app.py:260 -> 336-343: initialize_stream raises
WsInitFail(c) ==
    /\ calls[c].kind = "ws" /\ calls[c].pc = "initializing"
    /\ calls' = [calls EXCEPT ![c].pc = "closed", ![c].out = Append(@, Msg("error"))]
    /\ UNCHANGED <<aux, active_sessions, session, files, nextId, streams,
                   fullCalls, fullOK, initCalls>>

\* app.py:260-261, 274 -> 334-343: the client left while the initializer ran;
\* the result is cached, the ready and the error notice cannot be sent
WsInitDropped(c) ==
    /\ calls[c].kind = "ws" /\ calls[c].pc = "initializing"
    /\ LET s == calls[c].sid
           sd == InitializeStreamResult(session[s].file_path)
       IN  /\ streams' = Append(streams, sd)
           /\ session' = [session EXCEPT ![s].stream_data = Len(streams) + 1]
           /\ calls' = [calls EXCEPT ![c].pc = "closed"]
    /\ UNCHANGED <<aux, active_sessions, files, nextId, fullCalls, fullOK, initCalls>>

\* app.py:277/289 -> 291: the short sleep ends, stream_data re-read
WsEnterLoop(c) ==
    /\ calls[c].kind = "ws" /\ calls[c].pc = "ready"
    /\ calls' = [calls EXCEPT ![c].pc = "serving",
                              ![c].sd = session[calls[c].sid].stream_data]
    /\ UNCHANGED <<aux, active_sessions, session, files, nextId, streams,
                   fullCalls, fullOK, initCalls>>

Serving(c) ==
    calls[c].kind = "ws" /\ calls[c].pc = "serving" /\ calls[c].rx < MaxInbound

\* the update answering with the default time instead of the queried one
WsSeek_defaultTime(c, t) ==
    /\ Serving(c)
    /\ calls' = [calls EXCEPT ![c].rx = @ + 1, ![c].got = Inbound("seek", t),
                   ![c].out = Append(@, UpdateMsg(0, GetRealtimeData(streams[calls[c].sd], 0)))]
    /\ UNCHANGED <<aux, active_sessions, session, files, nextId, streams,
                   fullCalls, fullOK, initCalls>>

\* app.py:299-313: {"type": "seek", "time": t}
WsSeek(c, t) ==
    /\ Serving(c)
    /\ calls' = [calls EXCEPT ![c].rx = @ + 1, ![c].got = Inbound("seek", t),
                   ![c].out = Append(@, UpdateMsg(t, GetRealtimeData(streams[calls[c].sd], t)))]
    /\ UNCHANGED <<aux, active_sessions, session, files, nextId, streams,
                   fullCalls, fullOK, initCalls>>

\* app.py:315-319: {"type": "ping"}
WsPing(c) ==
    /\ Serving(c)
    /\ calls' = [calls EXCEPT ![c].rx = @ + 1, ![c].got = Inbound("ping", -1),
                              ![c].out = Append(@, Msg("pong"))]
    /\ UNCHANGED <<aux, active_sessions, session, files, nextId, streams,
                   fullCalls, fullOK, initCalls>>

\* a message of another type taken for a protocol error
WsUnknown_closes(c) ==
    /\ calls[c].kind = "ws" /\ calls[c].pc = "serving"
    /\ calls' = [calls EXCEPT ![c].pc = "closed", ![c].got = Inbound("other", -1),
                              ![c].ignored = TRUE,
                              ![c].out = Append(@, Msg("error"))]
    /\ UNCHANGED <<aux, active_sessions, session, files, nextId, streams,
                   fullCalls, fullOK, initCalls>>

\* app.py:299/315: a JSON object of any other type falls through both tests
\* and the loop receives again; nothing is sent, so such messages are not
\* counted in rx
WsUnknown(c) ==
    /\ calls[c].kind = "ws" /\ calls[c].pc = "serving"
    /\ calls' = [calls EXCEPT ![c].got = Inbound("other", -1), ![c].ignored = TRUE]
    /\ UNCHANGED <<aux, active_sessions, session, files, nextId, streams,
                   fullCalls, fullOK, initCalls>>

\* app.py:321-323: WebSocketDisconnect from receive_json
WsDisconnect(c) ==
    /\ calls[c].kind = "ws" /\ calls[c].pc = "serving"
    /\ calls' = [calls EXCEPT ![c].pc = "closed", ![c].got = Inbound("disconnect", -1)]
    /\ UNCHANGED <<aux, active_sessions, session, files, nextId, streams,
                   fullCalls, fullOK, initCalls>>

\* the error notice sent but the loop not left
WsMalformed_noBreak(c) ==
    /\ Serving(c)
    /\ calls' = [calls EXCEPT ![c].rx = @ + 1, ![c].got = Inbound("malformed", -1),
                              ![c].out = Append(@, Msg("error"))]
    /\ UNCHANGED <<aux, active_sessions, session, files, nextId, streams,
                   fullCalls, fullOK, initCalls>>

\* the failure of a connection stored as the session's error state
WsMalformed_marksSession(c) ==
    /\ calls[c].kind = "ws" /\ calls[c].pc = "serving"
    /\ calls' = [calls EXCEPT ![c].pc = "closed", ![c].got = Inbound("malformed", -1),
                              ![c].out = Append(@, Msg("error"))]
    /\ session' = [session EXCEPT ![calls[c].sid].status = "error"]
    /\ UNCHANGED <<aux, active_sessions, files, nextId, streams,
                   fullCalls, fullOK, initCalls>>

\* app.py:297-299 -> 324-332: the frame is not JSON, or decodes to something
\* other than an object so that data.get raises
WsMalformed(c) ==
    /\ calls[c].kind = "ws" /\ calls[c].pc = "serving"
    /\ calls' = [calls EXCEPT ![c].pc = "closed", ![c].got = Inbound("malformed", -1),
                              ![c].out = Append(@, Msg("error"))]
    /\ UNCHANGED <<aux, active_sessions, session, files, nextId, streams,
                   fullCalls, fullOK, initCalls>>

\* ------------------------------------------------- single-step endpoints
HttpResp(op, s, code, message) ==
    [NoResp EXCEPT !.op = op, !.sid = s, !.code = code, !.message = message]

\* the query leaving a mark on the record it reads
GetAnalysis_marks(s) ==
    /\ s \in active_sessions
    /\ resp' = [HttpResp("get_analysis", s, 200, "Analysis not complete")
                  EXCEPT !.status = session[s].status]
    /\ session' = [session EXCEPT ![s].status = "pending"]
    /\ UNCHANGED <<active_sessions, files, nextId, streams, calls,
                   fullCalls, fullOK, initCalls, summary, insight, gen>>

\* app.py:209-228  GET /api/analysis/{id}
GetAnalysis(s) ==
    /\ resp' =
         IF s \notin active_sessions
         THEN HttpResp("get_analysis", s, 404, "Session not found")
         ELSE IF ~session[s].analysis_complete
         THEN [HttpResp("get_analysis", s, 200, "Analysis not complete")
                  EXCEPT !.status = session[s].status]
         ELSE [HttpResp("get_analysis", s, 200, "none")
                  EXCEPT !.status = "complete", !.results = session[s].analysis]
    /\ UNCHANGED <<active_sessions, session, files, nextId, streams, calls,
                   fullCalls, fullOK, initCalls, summary, insight, gen>>

\* app.py:346-365  GET /api/video/{id}
GetVideo(s) ==
    /\ resp' =
         IF s \notin active_sessions
         THEN HttpResp("get_video", s, 404, "Session not found")
         ELSE IF session[s].file_path \notin files
         THEN HttpResp("get_video", s, 404, "Video file not found")
         ELSE HttpResp("get_video", s, 200, "file")
    /\ UNCHANGED <<active_sessions, session, files, nextId, streams, calls,
                   fullCalls, fullOK, initCalls, summary, insight, gen>>

\* the export reading the record without the membership test
Export_noLookup(s, fmt) ==
    /\ resp' =
         IF ~session[s].analysis_complete
         THEN HttpResp(fmt, s, 400, "Analysis not complete")
         ELSE [HttpResp(fmt, s, 200, "report")
                  EXCEPT !.results = session[s].analysis]
    /\ UNCHANGED <<active_sessions, session, files, nextId, streams, calls,
                   fullCalls, fullOK, initCalls, summary, insight, gen>>

\* app.py:392-416 and 419-439  GET /api/export/{id}/pdf and /json: the
\* report is rendered from session["analysis"]
Export(s, fmt) ==
    /\ resp' =
         IF s \notin active_sessions
         THEN HttpResp(fmt, s, 404, "Session not found")
         ELSE IF ~session[s].analysis_complete
         THEN HttpResp(fmt, s, 400, "Analysis not complete")
         ELSE [HttpResp(fmt, s, 200, "report")
                  EXCEPT !.results = session[s].analysis]
    /\ UNCHANGED <<active_sessions, session, files, nextId, streams, calls,
                   fullCalls, fullOK, initCalls, summary, insight, gen>>

\* app.py:371-372  DELETE /api/session/{id} on an id that is not in the map
DeleteMissing(s) ==
    /\ s \notin active_sessions
    /\ resp' = HttpResp("delete", s, 404, "Session not found")
    /\ UNCHANGED <<active_sessions, session, files, nextId, streams, calls,
                   fullCalls, fullOK, initCalls, summary, insight, gen>>

Next ==
    \/ Upload
    \/ \E s \in Ids : DeleteSession(s)
    \/ \E c \in CallIds, s \in Ids : AnalyzeBegin(c, s)
    \/ \E c \in CallIds : AnalyzeWake(c)
    \/ \E c \in CallIds : AnalyzeBuilt(c)
    \/ \E c \in CallIds : AnalyzeFullDone(c)
    \/ \E c \in CallIds : AnalyzeFullFail(c)
    \/ \E o \in 1..MaxCalls : StreamProgress(o)
    \/ \E c \in CallIds, s \in Ids : WsConnect(c, s)
    \/ \E c \in CallIds : WsInitDone(c)
    \/ \E c \in CallIds : WsInitFail(c)
    \/ \E c \in CallIds : WsInitDropped(c)
    \/ \E c \in CallIds : WsEnterLoop(c)
    \/ \E c \in CallIds, t \in SeekTimes : WsSeek(c, t)
    \/ \E c \in CallIds : WsPing(c)
    \/ \E c \in CallIds : WsUnknown(c)
    \/ \E c \in CallIds : WsDisconnect(c)
    \/ \E c \in CallIds : WsMalformed(c)

Spec == Init /\ [][Next]_vars

\* the coordinator together with its single-step endpoints; connections are
\* followed up to their handshake, the serving loop reading nothing but its
\* own connection and the stream_data it holds
NextHttp ==
    \/ Upload
    \/ \E s \in Ids : DeleteSession(s)
    \/ \E c \in CallIds, s \in Ids : AnalyzeBegin(c, s)
    \/ \E c \in CallIds : AnalyzeWake(c)
    \/ \E c \in CallIds : AnalyzeBuilt(c)
    \/ \E c \in CallIds : AnalyzeFullDone(c)
    \/ \E c \in CallIds : AnalyzeFullFail(c)
    \/ \E o \in 1..MaxCalls : StreamProgress(o)
    \/ \E c \in CallIds, s \in Ids : WsConnect(c, s)
    \/ \E c \in CallIds : WsInitDone(c)
    \/ \E c \in CallIds : WsInitFail(c)
    \/ \E c \in CallIds : WsInitDropped(c)
    \/ \E s \in Ids : GetAnalysis(s)
    \/ \E s \in Ids : GetVideo(s)
    \/ \E s \in Ids, fmt \in {"export_pdf", "export_json"} : Export(s, fmt)
    \/ \E s \in Ids : DeleteMissing(s)

SpecHttp == Init /\ [][NextHttp]_vars

\* the coordinator under the scheduling of the event loop: a sleep ends and a
\* producer that was awaited returns (with a result or by raising); nothing
\* is assumed of the progressive processing of a stream or of the clients
NextLive ==
    \/ Upload
    \/ \E s \in Ids : DeleteSession(s)
    \/ \E c \in CallIds, s \in Ids : AnalyzeBegin(c, s)
    \/ \E c \in CallIds : AnalyzeWake(c)
    \/ \E c \in CallIds : AnalyzeBuilt(c)
    \/ \E c \in CallIds : AnalyzeFullDone(c)
    \/ \E c \in CallIds : AnalyzeFullFail(c)
    \/ \E o \in 1..MaxCalls : StreamProgress(o)
    \/ \E c \in CallIds, s \in Ids : WsConnect(c, s)
    \/ \E c \in CallIds : WsInitDone(c)
    \/ \E c \in CallIds : WsInitFail(c)
    \/ \E c \in CallIds : WsInitDropped(c)

Fairness ==
    \A c \in CallIds :
        /\ WF_vars(AnalyzeWake(c))
        /\ WF_vars(AnalyzeBuilt(c))
        /\ WF_vars(AnalyzeFullDone(c) \/ AnalyzeFullFail(c))

SpecLive == Init /\ [][NextLive]_vars /\ Fairness

\* ---------------------------------------------------- insights generator
\* core/insights_generator.py. A string is the sequence of its characters; a
\* text is the sequence of its lines; the pictographs that open some lines of
\* the source text are left out of the strings. A number is held in quarters
\* (130 is 32.5), which binary floating point represents exactly.
kwEnergised == <<"E", "n", "e", "r", "g", "i", "s", "e", "d">>
kwStressed == <<"S", "t", "r", "e", "s", "s", "e", "d">>
kwTense == <<"T", "e", "n", "s", "e">>
kwFlat == <<"F", "l", "a", "t">>
kwDisengaged == <<"D", "i", "s", "e", "n", "g", "a", "g", "e", "d">>
kwThoughtful == <<"T", "h", "o", "u", "g", "h", "t", "f", "u", "l">>
kwConstructive == <<"C", "o", "n", "s", "t", "r", "u", "c", "t", "i", "v", "e">>
kwVolatile == <<"V", "o", "l", "a", "t", "i", "l", "e">>
kwUnstable == <<"U", "n", "s", "t", "a", "b", "l", "e">>

\* strings a dominant emotion is put together from: the keywords, a keyword
\* in lower case, a label matching nothing, a separator, and two pieces that
\* form a keyword only when joined
Chunks ==
    {kwEnergised, kwStressed, kwTense, kwFlat, kwDisengaged, kwThoughtful,
     kwConstructive, kwVolatile, kwUnstable,
     <<"e", "n", "e", "r", "g", "i", "s", "e", "d">>, <<"C", "a", "l", "m">>, <<"/">>,
     <<"T", "e", "n">>, <<"s", "e">>}

RECURSIVE Concat(_)
Concat(parts) == IF parts = <<>> THEN <<>> ELSE Head(parts) \o Concat(Tail(parts))

DominantEmotions ==
    {Concat(parts) : parts \in UNION {[1..n -> Chunks] : n \in 0..MaxChunks}}

RiskLevels == {"High", "Medium", "Low"}
StressLabel == "Stressed/Tense"
SilenceValues == {1, 130}
Distributions == {NoDistribution, [l \in {StressLabel} |-> 3]}
VolatilityValues == {10}

Summaries ==
    [dominant_emotion : DominantEmotions, psych_risk : RiskLevels,
     silence_pct : SilenceValues, distribution : Distributions,
     volatility : VolatilityValues]

\* Python's  sub in s  on strings
Contains(sub, s) ==
    \E i \in 1..(Len(s) - Len(sub) + 1) : SubSeq(s, i, i + Len(sub) - 1) = sub

\* Python's  d.get(k, default)
DictGet(d, k, default) == IF k \in DOMAIN d THEN d[k] ELSE default

\* Python's  f"{x:.1f}"  for x = q/4: the nearest tenth, a tie going to the
\* even digit; << whole part, tenth >>
Format1f(q) ==
    LET down == (10 * q) \div 4
        tie == (10 * q) % 4 = 2
        tenths == IF tie /\ down % 2 = 1 THEN down + 1 ELSE down
    IN  <<tenths \div 10, tenths % 10>>

\* Python's  q[:n]
Take(q, n) == SubSeq(q, 1, IF Len(q) < n THEN Len(q) ELSE n)

Line(s) == [s |-> s, n |-> <<>>, unit |-> ""]
Metric(s, q, unit) == [s |-> s, n |-> Format1f(q), unit |-> unit]

CatEnergised ==
    [header |-> <<"ENERGISED MEETING",
                  "Team showed high energy and positive engagement.">>,
     suggestions |->
        <<"Momentum is strong - protect it by ending meetings early this week",
          "Share quick wins publicly to reward the positive energy",
          "Add buffer time between meetings to prevent burnout",
          "Capture key insights while engagement is at peak",
          "Consider replicating this meeting format in future">>]

CatStressed ==
    [header |-> <<"STRESSED / TENSE MEETING",
                  "Team tone indicated stress and tension.">>,
     suggestions |->
        <<"Cancel or postpone non-essential meetings this week",
          "Offer one-to-one check-ins to understand concerns",
          "Share something positive that's under control",
          "Consider postponing major decisions until tension eases",
          "Review workload distribution across the team">>]

CatFlat ==
    [header |-> <<"FLAT / DISENGAGED MEETING",
                  "Team showed low energy and engagement.">>,
     suggestions |->
        <<"Cut meeting time by 50% next week to respect energy levels",
          "Consider ending the week early for recovery",
          "Create space for anonymous feedback",
          "Introduce interactive elements or breakout discussions",
          "Review if meeting objectives are clear and relevant">>]

CatThoughtful ==
    [header |-> <<"THOUGHTFUL / FOCUSED MEETING",
                  "Team was calm, steady, and reflective.">>,
     suggestions |->
        <<"Excellent meeting dynamics - maintain this format",
          "Capture insights and decisions while they're fresh",
          "Ask team: 'What helped today's flow?'",
          "Document and repeat successful elements",
          "Consider this a baseline for future meetings">>]

CatVolatile ==
    [header |-> <<"VOLATILE / UNSTABLE MEETING",
                  "Emotional tone was unpredictable and mixed.">>,
     suggestions |->
        <<"Follow up individually with less active participants",
          "Reiterate shared goals and objectives in writing",
          "Consider bringing in facilitation support",
          "Break large group into smaller discussion groups",
          "Review meeting structure and participation balance">>]

CatDefault ==
    [header |-> <<"MEETING ANALYSIS">>,
     suggestions |->
        <<"Review meeting structure and participation patterns",
          "Consider individual check-ins with team members",
          "Monitor emotional patterns in upcoming meetings",
          "Gather feedback on meeting effectiveness">>]

\* the stressed/tense test moved in front of the energised one
SelectCategory_stressedFirst(dominant) ==
    IF Contains(kwStressed, dominant) \/ Contains(kwTense, dominant) THEN CatStressed
    ELSE IF Contains(kwEnergised, dominant) THEN CatEnergised
    ELSE IF Contains(kwFlat, dominant) \/ Contains(kwDisengaged, dominant) THEN CatFlat
    ELSE IF Contains(kwThoughtful, dominant) \/ Contains(kwConstructive, dominant)
         THEN CatThoughtful
    ELSE IF Contains(kwVolatile, dominant) \/ Contains(kwUnstable, dominant)
         THEN CatVolatile
    ELSE CatDefault

\* insights_generator.py:86-143: the if/elif chain over the dominant emotion
SelectCategory(dominant) ==
    IF Contains(kwEnergised, dominant) THEN CatEnergised
    ELSE IF Contains(kwStressed, dominant) \/ Contains(kwTense, dominant) THEN CatStressed
    ELSE IF Contains(kwFlat, dominant) \/ Contains(kwDisengaged, dominant) THEN CatFlat
    ELSE IF Contains(kwThoughtful, dominant) \/ Contains(kwConstructive, dominant)
         THEN CatThoughtful
    ELSE IF Contains(kwVolatile, dominant) \/ Contains(kwUnstable, dominant)
         THEN CatVolatile
    ELSE CatDefault

\* insights_generator.py:154-157 and 174-177
MetricsLines(data) ==
    <<Line("Metrics:"),
      Metric("Silence: ", data.silence_pct, "%"),
      Metric("Stress: ", DictGet(data.distribution, StressLabel, 0), "%"),
      Metric("Volatility: ", data.volatility, "")>>

\* the Medium level given the single line of the Low level
PsychSection_mediumAsLow(data) ==
    IF data.psych_risk = "High" THEN
        <<Line(""), Line("PSYCHOLOGICAL SAFETY RISK: HIGH"),
          Line("Critical factors detected - immediate action required."), Line("")>>
        \o MetricsLines(data) \o
        <<Line(""), Line("URGENT ACTIONS:"),
          Line("Pause all group decision-making immediately"),
          Line("Score team's current working experience (1-5 scale)"),
          Line("Run psychological safety retrospective"),
          Line("Schedule one-to-one's with all participants"),
          Line("Address concerns before proceeding with regular schedule")>>
    ELSE
        <<Line(""),
          Line("Psychological Safety: LOW RISK - Team dynamics appear healthy")>>

\* insights_generator.py:146-187: the text appended for the risk level
PsychSection(data) ==
    IF data.psych_risk = "High" THEN
        <<Line(""), Line("PSYCHOLOGICAL SAFETY RISK: HIGH"),
          Line("Critical factors detected - immediate action required."), Line("")>>
        \o MetricsLines(data) \o
        <<Line(""), Line("URGENT ACTIONS:"),
          Line("Pause all group decision-making immediately"),
          Line("Score team's current working experience (1-5 scale)"),
          Line("Run psychological safety retrospective"),
          Line("Schedule one-to-one's with all participants"),
          Line("Address concerns before proceeding with regular schedule")>>
    ELSE IF data.psych_risk = "Medium" THEN
        <<Line(""), Line("PSYCHOLOGICAL SAFETY RISK: MEDIUM"),
          Line("Some warning signs detected - monitor closely."), Line("")>>
        \o MetricsLines(data) \o
        <<Line(""), Line("NEXT STEPS:"),
          Line("Monitor team dynamics in next session"),
          Line("Create anonymous feedback channel"),
          Line("Check in with quieter team members")>>
    ELSE
        <<Line(""),
          Line("Psychological Safety: LOW RISK - Team dynamics appear healthy")>>

Lines(q) == [i \in 1..Len(q) |-> Line(q[i])]

\* insights_generator.py:77-187  _fallback_suggestions
fallback_suggestions(data) ==
    LET category == SelectCategory(data.dominant_emotion)
    IN  Lines(category.header) \o <<Line(""), Line("RECOMMENDATIONS:")>>
        \o Lines(Take(category.suggestions, 5)) \o PsychSection(data)

\* insights_generator.py:13-23: a key that is None or empty leaves no client;
\* with a key the client is built, or left None when building it raises
Generators == {Generator(FALSE, FALSE), Generator(FALSE, TRUE), Generator(TRUE, TRUE)}

\* the text of a completion
GeneratedTexts == {<<Line("generated suggestions")>>}

\* a summary arrives at a generator
InitClassify ==
    /\ active_sessions = {}
    /\ session = [s \in Ids |-> Blank]
    /\ files = {}
    /\ nextId = 1
    /\ streams = <<>>
    /\ calls = [c \in CallIds |-> IdleCall]
    /\ fullCalls = [s \in Ids |-> 0]
    /\ fullOK = [s \in Ids |-> 0]
    /\ initCalls = [s \in Ids |-> 0]
    /\ resp = NoResp
    /\ summary \in Summaries
    /\ insight = <<>>
    /\ gen \in Generators

\* generate_suggestions returns text by the path taken
Returns(text, path, failed) ==
    /\ insight' = text
    /\ gen' = [gen EXCEPT !.ncalls = @ + 1, !.prev = insight, !.prevpath = gen.path,
                          !.path = path, !.failed = failed, !.raised = FALSE]
    /\ UNCHANGED <<active_sessions, session, files, nextId, streams, calls,
                   fullCalls, fullOK, initCalls, resp, summary>>

\* insights_generator.py:30-31: no client or no key, the rule-based text is
\* returned
FallbackSuggestions ==
    /\ gen.ncalls < MaxGenCalls
    /\ ~gen.client \/ ~gen.api_key
    /\ Returns(fallback_suggestions(summary), "fallback", FALSE)

\* insights_generator.py:33-52: the completion's content is returned
GenerateDone ==
    /\ gen.ncalls < MaxGenCalls
    /\ gen.client /\ gen.api_key
    /\ \E text \in GeneratedTexts : Returns(text, "generated", FALSE)

\* the exception of the service let through to the caller
GenerateFail_propagates ==
    /\ gen.ncalls < MaxGenCalls
    /\ gen.client /\ gen.api_key
    /\ gen' = [gen EXCEPT !.ncalls = @ + 1, !.prev = insight, !.prevpath = gen.path,
                          !.path = "none", !.failed = TRUE, !.raised = TRUE]
    /\ UNCHANGED <<active_sessions, session, files, nextId, streams, calls,
                   fullCalls, fullOK, initCalls, resp, summary, insight>>

\* insights_generator.py:33-36 -> 54-56: building the prompt or the call of
\* the service raises, the rule-based text is returned
GenerateFail ==
    /\ gen.ncalls < MaxGenCalls
    /\ gen.client /\ gen.api_key
    /\ Returns(fallback_suggestions(summary), "fallback", TRUE)

NextClassify ==
    \/ FallbackSuggestions
    \/ GenerateDone
    \/ GenerateFail

SpecClassify == InitClassify /\ [][NextClassify]_vars

\* ====================================================================
\* Properties
\* ====================================================================
Allocated == 1..(nextId - 1)

AnalyzeCalls(s) == {c \in CallIds : calls[c].kind = "analyze" /\ calls[c].sid = s}

WsCalls(s) == {c \in CallIds : calls[c].kind = "ws" /\ calls[c].sid = s}

\* the analyze calls on s never overlapped: each started after the previous returned
InSequence(s) ==
    \A a, b \in AnalyzeCalls(s) : a < b => a \in calls[b].after

Failed(s) == {c \in AnalyzeCalls(s) : calls[c].code = 500}

Succeeded(s) == {c \in AnalyzeCalls(s) : calls[c].pc = "returned" /\ calls[c].code = 200}

SameResults(s) ==
    \A a, b \in Succeeded(s) : calls[a].results = calls[b].results

IsPrefix(p, q) == Len(p) <= Len(q) /\ \A i \in 1..Len(p) : p[i] = q[i]

\* the step taken changes the position of request c
Moves(c) == calls'[c] # calls[c]

C2_AtMostOneComputation ==
    \A s \in Ids : fullOK[s] <= 1

\* C3: a session whose analysis cache is present has status complete.
C3_CacheImpliesComplete ==
    \A s \in Allocated :
        session[s].analysis # NoResult => session[s].status = "complete"

\* C4: the edge list of the claim leaves analyzing as the only way into
\* complete and no way out of it: a session enters complete from analyzing
\* only, and once complete its status never changes.
C4_CompleteFromAnalyzingAndFinal ==
    [][\A s \in Allocated :
          /\ ( session'[s].status = "complete" /\ session[s].status # "complete" )
                => session[s].status = "analyzing"
          /\ session[s].status = "complete" => session'[s].status = "complete"]_vars

\* the step in which a connection that found no stream_data gets the
\* initializer's result
InitReturns(c) ==
    calls[c].kind = "ws" /\ calls[c].pc = "initializing" /\ calls'[c].pc = "ready"

C6_DerivedFromStream ==
    [][\A c \in CallIds :
          /\ ( /\ calls[c].kind = "idle" /\ calls'[c].kind = "analyze"
               /\ calls'[c].sid \in active_sessions
               /\ ~(session[calls'[c].sid].analysis_complete
                    /\ session[calls'[c].sid].analysis # NoResult)
               /\ session[calls'[c].sid].stream_data # None
               /\ streams[session[calls'[c].sid].stream_data].is_fully_processed )
             => /\ calls'[c].pc = "building"
                /\ calls'[c].sd = session[calls'[c].sid].stream_data
                /\ fullCalls' = fullCalls
          /\ ( calls[c].pc = "building" /\ Moves(c) )
             => /\ calls'[c].pc = "returned" /\ calls'[c].code = 200
                /\ \E text \in SuggestionTexts :
                      calls'[c].results
                          = BuildAnalysisFromStream(streams[calls[c].sd], text)
                /\ session'[calls[c].sid].analysis = calls'[c].results
                /\ session'[calls[c].sid].analysis_complete
                /\ session'[calls[c].sid].status = "complete"
                /\ fullCalls' = fullCalls]_vars

C6_Witness ==
    \E s \in Allocated : \E c \in Succeeded(s) :
        /\ calls[c].sd # None
        /\ calls[c].attempts = 0
        /\ fullCalls[s] = 0
        /\ session[s].analysis = calls[c].results
        /\ Len(calls[c].results.timeline) = TimelineLen

\* C7: a connection that starts when the session has stream_data gets ready
\* from that cache, never runs the initializer, and leaves stream_data alone.
C7_OpenStreamCacheHit ==
    [][\A c \in CallIds :
          /\ ( /\ calls[c].kind = "idle" /\ calls'[c].kind = "ws"
               /\ calls'[c].sid \in active_sessions
               /\ session[calls'[c].sid].stream_data # None )
             => /\ calls'[c].pc = "ready"
                /\ calls'[c].out
                     = <<ReadyMsg(streams[session[calls'[c].sid].stream_data])>>
                /\ initCalls' = initCalls
                /\ session' = session /\ streams' = streams
          /\ ( calls[c].kind = "ws" /\ calls[c].pc # "initializing" /\ Moves(c) )
             => /\ calls'[c].pc # "initializing"
                /\ initCalls' = initCalls
                /\ session' = session /\ streams' = streams]_vars

C7_Witness ==
    \E s \in Allocated : \E c \in WsCalls(s) :
        /\ calls[c].pc = "serving"
        /\ calls[c].out[1].type = "ready"
        /\ calls[c].sd = session[s].stream_data
        /\ initCalls[s] = 0

\* C8: no step of the stream handler invokes analyze_full or changes a
\* session's analysis, analysis_complete or status.
C8_StreamLeavesAnalysis ==
    [][(\E c \in CallIds : Moves(c) /\ calls'[c].kind = "ws") =>
          /\ fullCalls' = fullCalls
          /\ fullOK' = fullOK
          /\ \A s \in Ids :
                /\ session'[s].analysis = session[s].analysis
                /\ session'[s].analysis_complete = session[s].analysis_complete
                /\ session'[s].status = session[s].status]_vars

C8_Witness ==
    \E s \in Allocated : \E c \in WsCalls(s) :
        /\ calls[c].pc = "closed"
        /\ calls[c].rx > 0
        /\ initCalls[s] = 1
        /\ session[s].status = "uploaded"
        /\ session[s].analysis = NoResult

\* the parallel lists of a stream_data dict against an analysis timeline
Consistent(res, sd) ==
    /\ res.duration = sd.duration
    /\ Len(sd.energy_timeline) = Len(sd.timestamps)
    /\ Len(sd.emotion_series) = Len(sd.timestamps)
    /\ Len(sd.categories) = Len(sd.timestamps)
    /\ Len(sd.timestamps) <= Len(res.timeline)
    /\ sd.is_fully_processed => Len(sd.timestamps) = Len(res.timeline)
    /\ \A i \in 1..Len(sd.timestamps) :
          /\ res.timeline[i].time = sd.timestamps[i]
          /\ res.timeline[i].energy = sd.energy_timeline[i]
          /\ res.timeline[i].emotion_raw = sd.emotion_series[i]
          /\ res.timeline[i].category = sd.categories[i]

HadReady(c) == \E i \in 1..Len(calls[c].out) : calls[c].out[i].type = "ready"

C10_StreamMonotonic ==
    [][\A s \in Allocated :
          HasStream(session[s]) =>
              /\ HasStream(session'[s])
              /\ LET old == streams[session[s].stream_data]
                     new == streams'[session'[s].stream_data]
                 IN  /\ old.is_fully_processed => new.is_fully_processed
                     /\ IsPrefix(old.timestamps, new.timestamps)
                     /\ IsPrefix(old.energy_timeline, new.energy_timeline)
                     /\ IsPrefix(old.emotion_series, new.emotion_series)
                     /\ IsPrefix(old.categories, new.categories)]_vars
\* the step in which analyze_full raises in request c
FullFails(c) ==
    calls[c].kind = "analyze" /\ calls[c].pc = "analyzing" /\ calls'[c].code = 500

\* C11: when analyze_full fails the session's status becomes error, the
\* message of the failure is stored in the record, the call writes no
\* analysis, and the session stays in the session map.
C11_FailureRecorded ==
    [][\A c \in CallIds :
          FullFails(c) =>
              LET s == calls[c].sid
              IN  /\ session'[s].status = "error"
                  /\ calls'[c].detail \in ErrorMessages
                  /\ session'[s].error = calls'[c].detail
                  /\ session'[s].analysis = session[s].analysis
                  /\ session'[s].analysis_complete = session[s].analysis_complete
                  /\ calls'[c].results = NoResult
                  /\ active_sessions' = active_sessions]_vars

C11_Witness ==
    \E s \in active_sessions : \E c \in Failed(s) :
        /\ session[s].status = "error"
        /\ session[s].error = calls[c].detail
        /\ session[s].error = "out of memory"
        /\ session[s].analysis = NoResult

\* the step is a single-step request that was answered with a new response
Answered(op) == resp' # resp /\ resp'.op = op

\* C12: once an analysis of a session has failed, a get_analysis on it
\* reports status error with the stored failure message, and invokes no
\* producer.
C12_ErrorReported ==
    [][( /\ Answered("get_analysis")
         /\ resp'.sid \in active_sessions
         /\ Failed(resp'.sid) # {} )
          => /\ resp'.status = "error"
             /\ resp'.message = session[resp'.sid].error
             /\ fullCalls' = fullCalls /\ initCalls' = initCalls]_vars

\* C13: get_analysis changes nothing but its response: the cached analysis
\* when there is one, the session's current status otherwise.
C13_GetAnalysisReadOnly ==
    [][Answered("get_analysis") =>
          /\ UNCHANGED <<active_sessions, session, files, nextId, streams,
                         calls, fullCalls, fullOK, initCalls>>
          /\ resp'.sid \in active_sessions =>
                /\ resp'.code = 200
                /\ IF session[resp'.sid].analysis # NoResult
                   THEN resp'.results = session[resp'.sid].analysis
                   ELSE /\ resp'.results = NoResult
                        /\ resp'.status = session[resp'.sid].status]_vars

C13_Witness ==
    /\ resp.op = "get_analysis"
    /\ resp.sid \in active_sessions
    /\ resp.results # NoResult
    /\ resp.results = session[resp.sid].analysis

\* C14: on an id that is not in the session map, analyze, get_analysis, the
\* stream connection, video, export and delete answer not-found, carry no
\* cached data, and leave the session map and its records as they were.
C14_NotFound ==
    [][/\ \A c \in CallIds :
            ( /\ calls[c].kind = "idle" /\ calls'[c].kind # "idle"
              /\ calls'[c].sid \notin active_sessions )
              => /\ \/ calls'[c].kind = "analyze" /\ calls'[c].pc = "returned"
                       /\ calls'[c].code = 404
                    \/ calls'[c].kind = "ws" /\ calls'[c].pc = "closed"
                       /\ calls'[c].out = <<Msg("error")>>
                 /\ calls'[c].results = NoResult
                 /\ UNCHANGED <<active_sessions, session, files, streams,
                                fullCalls, initCalls>>
       /\ ( resp' # resp /\ resp'.sid \notin active_sessions )
              => /\ resp'.code = 404
                 /\ resp'.results = NoResult
                 /\ resp'.status = "none"
                 /\ UNCHANGED <<active_sessions, session, files, streams,
                                calls, fullCalls, initCalls>>]_vars

C14_Witness ==
    /\ resp.op \in {"export_pdf", "export_json"}
    /\ resp.code = 404
    /\ resp.sid \in Allocated \ active_sessions
    /\ session[resp.sid].analysis # NoResult
\* the step in which request c arrives as a stream connection
Connects(c) == calls[c].kind = "idle" /\ calls'[c].kind = "ws"

Types(out) == [i \in 1..Len(out) |-> out[i].type]

\* C15: a connection to an existing session without stream_data is sent a
\* status notice first and, when the initializer returns, a ready carrying
\* the duration of the stream it returned (when it raises, an error closes
\* the connection); with stream_data present the first message is a ready
\* carrying the cached duration; no status notice is sent at any later point.
C15_Handshake ==
    [][\A c \in CallIds :
          /\ ( Connects(c) /\ calls'[c].sid \in active_sessions
               /\ session[calls'[c].sid].stream_data = None )
                => calls'[c].out = <<Msg("status")>> /\ calls'[c].pc = "initializing"
          /\ ( Connects(c) /\ calls'[c].sid \in active_sessions
               /\ session[calls'[c].sid].stream_data # None )
                => /\ Types(calls'[c].out) = <<"ready">>
                   /\ calls'[c].out[1].duration
                        = streams[session[calls'[c].sid].stream_data].duration
          /\ ( calls[c].kind = "ws" /\ calls[c].pc = "initializing" /\ Moves(c) )
                => \/ /\ Types(calls'[c].out) = <<"status", "ready">>
                      /\ calls'[c].pc = "ready"
                      /\ calls'[c].out[2].duration
                           = streams'[session'[calls[c].sid].stream_data].duration
                      /\ calls'[c].out[2].duration
                           = MediaDuration(session[calls[c].sid].file_path)
                   \/ /\ Types(calls'[c].out) \in {<<"status", "error">>, <<"status">>}
                      /\ calls'[c].pc = "closed"
          /\ ( calls[c].kind = "ws" /\ Moves(c) )
                => /\ IsPrefix(calls[c].out, calls'[c].out)
                   /\ \A i \in (Len(calls[c].out) + 1)..Len(calls'[c].out) :
                         calls'[c].out[i].type # "status"]_vars

C15_Witness ==
    \E s \in Allocated : \E a, b \in WsCalls(s) :
        /\ Types(calls[a].out) = <<"status", "ready">>
        /\ Types(calls[b].out) = <<"ready">>
        /\ calls[b].out[1].duration = calls[a].out[2].duration
        /\ calls[b].out[1].duration = MediaDuration(s)

\* the step in which connection c handles an inbound message of the type
Receives(c, type) ==
    /\ calls[c].kind = "ws" /\ calls[c].pc = "serving"
    /\ Moves(c) /\ calls'[c].got.type = type

Last(q) == q[Len(q)]

\* C16: a seek is answered by exactly one update carrying the time of the
\* seek, a ping by exactly one pong, and neither changes a session record.
C16_SeekAndPing ==
    [][\A c \in CallIds :
          /\ Receives(c, "seek")
                => /\ Len(calls'[c].out) = Len(calls[c].out) + 1
                   /\ IsPrefix(calls[c].out, calls'[c].out)
                   /\ Last(calls'[c].out).type = "update"
                   /\ Last(calls'[c].out).time = calls'[c].got.time
                   /\ session' = session /\ streams' = streams
                   /\ active_sessions' = active_sessions
          /\ Receives(c, "ping")
                => /\ calls'[c].out = Append(calls[c].out, Msg("pong"))
                   /\ session' = session /\ streams' = streams
                   /\ active_sessions' = active_sessions]_vars

C16_Witness ==
    \E c \in CallIds :
        /\ calls[c].got = Inbound("seek", WindowStep + 2)
        /\ Last(calls[c].out).type = "update"
        /\ Last(calls[c].out).time = WindowStep + 2

\* C17: an inbound message that is neither seek nor ping gets no answer,
\* leaves the connection serving and the session records unchanged, and the
\* message that follows it is handled like any other.
C17_UnknownIgnored ==
    [][\A c \in CallIds :
          /\ Receives(c, "other")
                => /\ calls'[c].out = calls[c].out
                   /\ calls'[c].pc = "serving"
                   /\ calls'[c].rx = calls[c].rx
                   /\ session' = session /\ streams' = streams
                   /\ active_sessions' = active_sessions
          /\ ( calls[c].got.type = "other" /\ Receives(c, "ping") )
                => calls'[c].out = Append(calls[c].out, Msg("pong"))
          /\ ( calls[c].got.type = "other" /\ Receives(c, "seek") )
                => Last(calls'[c].out).type = "update"]_vars

C17_Witness ==
    \E c \in CallIds :
        /\ calls[c].ignored
        /\ calls[c].pc = "serving"
        /\ calls[c].got.type = "ping"
        /\ Types(calls[c].out) = <<"ready", "pong">>

\* the lifecycle state of a connection
Phase(call) ==
    CASE call.kind = "idle" -> "new"
      [] call.pc = "initializing" -> "Connecting"
      [] call.pc = "ready" -> "Ready"
      [] call.pc = "serving" -> "Serving"
      [] OTHER -> "Closed"

\* Connecting is left at once by a connection that finds stream_data cached
\* or no session; a failed handshake closes the connection
PhaseEdges ==
    {<<"new", "Connecting">>, <<"new", "Ready">>, <<"new", "Closed">>,
     <<"Connecting", "Ready">>, <<"Connecting", "Closed">>,
     <<"Ready", "Serving">>, <<"Serving", "Serving">>, <<"Serving", "Closed">>}

\* C18: a connection moves Connecting -> Ready -> Serving -> Closed and never
\* backwards; ready is sent at most once and before any update or pong; a
\* decode error or a disconnect while serving closes it; a closed connection
\* handles nothing more.
C18_Lifecycle ==
    [][\A c \in CallIds :
          ( calls'[c].kind = "ws" /\ Moves(c) ) =>
              /\ <<Phase(calls[c]), Phase(calls'[c])>> \in PhaseEdges
              /\ Cardinality({i \in 1..Len(calls'[c].out) :
                                 calls'[c].out[i].type = "ready"}) <= 1
              /\ \A i \in 1..Len(calls'[c].out) :
                    calls'[c].out[i].type \in {"update", "pong"} =>
                        \E j \in 1..(i - 1) : calls'[c].out[j].type = "ready"
              /\ Phase(calls'[c]) = "Serving" =>
                    \E j \in 1..Len(calls'[c].out) : calls'[c].out[j].type = "ready"
              /\ calls'[c].got.type \in {"malformed", "disconnect"} =>
                    Phase(calls'[c]) = "Closed"]_vars

C18_Witness ==
    \E c \in CallIds :
        /\ calls[c].kind = "ws" /\ calls[c].pc = "closed"
        /\ calls[c].got.type = "malformed"
        /\ Types(calls[c].out) = <<"status", "ready", "update", "error">>

Errors(out) == {i \in 1..Len(out) : out[i].type = "error"}

\* C19: when a disconnect or an undecodable message ends a connection's loop,
\* that connection closes with at most one error notice, no session record
\* changes, and every other connection is left as it was; a connection still
\* serving beside a closed one still has its messages answered.
C19_OnlyThatConnection ==
    [][/\ \A c \in CallIds :
            ( Receives(c, "disconnect") \/ Receives(c, "malformed") ) =>
                /\ calls'[c].pc = "closed"
                /\ Cardinality(Errors(calls'[c].out)) <= 1
                /\ session' = session /\ streams' = streams
                /\ active_sessions' = active_sessions /\ files' = files
                /\ \A d \in CallIds \ {c} : calls'[d] = calls[d]
       /\ \A c, d \in CallIds :
            ( /\ calls[c].kind = "ws" /\ calls[c].pc = "closed"
              /\ calls[d].kind = "ws" /\ calls[d].sid = calls[c].sid
              /\ calls[d].pc = "serving" /\ calls[d].rx < MaxInbound )
                => ENABLED WsPing(d)]_vars

C19_Witness ==
    \E s \in Allocated : \E c, d \in WsCalls(s) :
        /\ c # d
        /\ calls[c].pc = "closed" /\ calls[c].got.type = "malformed"
        /\ Cardinality(Errors(calls[c].out)) = 1
        /\ c \notin calls[d].after
        /\ calls[d].pc = "serving"
        /\ Last(calls[d].out).type = "update"
        /\ session[s].status = "uploaded" /\ session[s].stream_data # None
\* the categories in the order in which the claim lists them, each with the
\* patterns that select it
Priority ==
    <<[patterns |-> {kwEnergised}, category |-> CatEnergised],
      [patterns |-> {kwStressed, kwTense}, category |-> CatStressed],
      [patterns |-> {kwFlat, kwDisengaged}, category |-> CatFlat],
      [patterns |-> {kwThoughtful, kwConstructive}, category |-> CatThoughtful],
      [patterns |-> {kwVolatile, kwUnstable}, category |-> CatVolatile]>>

Matches(i, dominant) == \E kw \in Priority[i].patterns : Contains(kw, dominant)

\* the position of the RECOMMENDATIONS: line, the header lines before it and
\* the suggestion lines after it up to the blank line that opens the annex
LabelAt(text) == CHOOSE i \in 1..Len(text) : text[i].s = "RECOMMENDATIONS:"
HeaderOf(text) == [i \in 1..(LabelAt(text) - 2) |-> text[i].s]
AnnexAt(text) == CHOOSE i \in (LabelAt(text) + 1)..Len(text) :
                     /\ text[i].s = ""
                     /\ \A j \in (LabelAt(text) + 1)..(i - 1) : text[j].s # ""
SuggestionsOf(text) ==
    [i \in 1..(AnnexAt(text) - LabelAt(text) - 1) |-> text[LabelAt(text) + i].s]

\* C20: the text returned for a summary has the header and the suggestions
\* of exactly one category: of the earliest category, in the order energised,
\* stressed/tense, flat/disengaged, thoughtful/constructive, volatile/unstable,
\* one of whose patterns is a substring of the dominant emotion, and of the
\* default category when no pattern is.
C20_FirstMatchWins ==
    gen.path = "fallback" =>
        LET dominant == summary.dominant_emotion
            hits == {i \in 1..Len(Priority) : Matches(i, dominant)}
        IN  /\ \A i \in hits :
                  (\A j \in hits : i <= j) =>
                      /\ HeaderOf(insight) = Priority[i].category.header
                      /\ SuggestionsOf(insight) = Take(Priority[i].category.suggestions, 5)
            /\ hits = {} =>
                  /\ HeaderOf(insight) = CatDefault.header
                  /\ SuggestionsOf(insight) = Take(CatDefault.suggestions, 5)
            /\ Cardinality({cat \in {Priority[i].category : i \in 1..Len(Priority)}
                                      \cup {CatDefault} :
                               HeaderOf(insight) = cat.header}) = 1

\* a dominant emotion with  Tense  ahead of  Energised  is answered with the
\* energised category
C20_Witness ==
    /\ summary.dominant_emotion = kwTense \o kwEnergised
    /\ gen.path = "fallback"
    /\ HeaderOf(insight) = CatEnergised.header
    /\ SuggestionsOf(insight) = CatEnergised.suggestions
\* C21: for every category, the default one included, and every risk level,
\* the returned text has exactly five suggestion lines between the
\* RECOMMENDATIONS: line and the risk annex.
C21_FiveSuggestions ==
    gen.path = "fallback" =>
        /\ Len(SuggestionsOf(insight)) = 5
        /\ insight[AnnexAt(insight)] = PsychSection(summary)[1]
\* the lines from the blank line after the suggestions to the end of the text
AnnexOf(text) == SubSeq(text, AnnexAt(text), Len(text))

\* the annex holds the action list: the title line followed by exactly n
\* lines that end the text
ActionList(annex, title, n) ==
    \E i \in 1..Len(annex) :
        /\ annex[i].s = title
        /\ Len(annex) = i + n
        /\ \A j \in (i + 1)..Len(annex) : annex[j].s # "" /\ annex[j].n = <<>>

GenerateReturns == gen'.ncalls = gen.ncalls + 1

\* C23: a call of generate_suggestions made without client or without key,
\* or in which the service fails, returns the text of the rule-based
\* classifier for the same summary and raises nothing to its caller.
C23_FallbackOnAbsenceOrFailure ==
    [][( GenerateReturns /\ (~gen.client \/ ~gen.api_key \/ gen'.failed) ) =>
          /\ ~gen'.raised
          /\ gen'.path = "fallback"
          /\ insight' = fallback_suggestions(summary)
          /\ summary' = summary]_vars

\* the service answered the first call and failed in the second
C23_Witness ==
    /\ gen.client /\ gen.api_key
    /\ gen.prevpath = "generated" /\ gen.prev \in GeneratedTexts
    /\ gen.failed /\ gen.path = "fallback" /\ ~gen.raised
    /\ insight = fallback_suggestions(summary)
\* everything the program holds for session s: its record, its entry in the
\* session map, its file, the stream_data its record points to, and the
\* producer invocations made for it
View(s, sess, active, onDisk, heap, full, inits) ==
    [record |-> sess[s],
     active |-> s \in active,
     file |-> s \in onDisk,
     stream |-> IF sess[s].stream_data = None THEN {}
                ELSE {heap[sess[s].stream_data]},
     full |-> full[s],
     inits |-> inits[s]]

\* the sessions for which the step taken changes something
Touched ==
    {s \in Ids :
        View(s, session', active_sessions', files', streams', fullCalls', initCalls')
          # View(s, session, active_sessions, files, streams, fullCalls, initCalls)}

\* the next step of a request or connection that has not ended
StepOf(d) ==
    \/ AnalyzeWake(d) \/ AnalyzeBuilt(d) \/ AnalyzeFullDone(d) \/ AnalyzeFullFail(d)
    \/ WsInitDone(d) \/ WsInitFail(d) \/ WsInitDropped(d) \/ WsEnterLoop(d)
    \/ WsDisconnect(d) \/ WsUnknown(d)

InFlight == {d \in CallIds : calls[d].kind # "idle" /\ d \notin Returned}

\* C24: every step - a producer's failure, a wait that timed out, a
\* connection's error and a delete included - changes what is held for at
\* most one session, the one its request or connection is bound to, moves no
\* request of another session, and leaves every request in flight with a next
\* step it can take.
C24_Isolation ==
    [][/\ Cardinality(Touched) <= 1
       /\ \A c \in CallIds :
             Moves(c) => /\ Touched \subseteq {calls'[c].sid}
                         /\ \A d \in CallIds \ {c} : ~Moves(d)
       /\ \A s \in Ids :
             (s \in active_sessions /\ s \notin active_sessions') =>
                 Touched \subseteq {s} /\ calls' = calls
       /\ \A d \in InFlight : ENABLED StepOf(d)]_vars

\* session 1 failed and was deleted while the request for session 2 was in
\* progress; session 2 is complete
C24_Witness ==
    \E a, b \in CallIds :
        /\ calls[a].kind = "analyze" /\ calls[a].sid = 1 /\ calls[a].code = 500
        /\ calls[b].kind = "analyze" /\ calls[b].sid = 2
        /\ calls[b].pc = "returned" /\ calls[b].code = 200
        /\ a \notin calls[b].after /\ b \notin calls[a].after
        /\ 1 \notin active_sessions /\ session[1].status = "error"
        /\ 2 \in active_sessions /\ session[2].status = "complete"
        /\ session[2].analysis = calls[b].results
\* the step in which analyze request c, holding a stream_data, reads its flag
Polls(c) ==
    /\ calls'[c].kind = "analyze" /\ calls'[c].sd # None
    /\ calls'[c].checks = calls[c].checks + 1

\* C25 as stated: a request that finds a stream_data not fully processed reads
\* the flag at most 15 times.
C25_Original ==
    \A c \in CallIds : calls[c].checks <= MaxPollAttempts

\* C25 amended: the request reads the flag before each of at most 15 sleeps
\* and once more after the last, sixteen times at most; a read that finds the
\* flag set leads to the result built from the stream, the producer of the
\* full analysis not invoked; the read after the last sleep that finds it
\* unset invokes that producer once (or answers 404 when the file is gone),
\* whose result is cached and returned, the only error ever returned being
\* the producer's own.
C25_BoundedPolling ==
    [][\A c \in CallIds :
          LET s == calls'[c].sid
              sd == calls'[c].sd
          IN  /\ Polls(c) =>
                   /\ calls'[c].checks <= MaxPollAttempts + 1
                   /\ calls'[c].attempts <= MaxPollAttempts
                   /\ streams[sd].is_fully_processed =>
                         calls'[c].pc = "building" /\ fullCalls' = fullCalls
                   /\ ( ~streams[sd].is_fully_processed
                        /\ calls[c].attempts < MaxPollAttempts ) =>
                         /\ calls'[c].pc = "sleeping" /\ fullCalls' = fullCalls
                         /\ calls'[c].attempts = calls[c].attempts + 1
                         /\ session' = session
                   /\ ( ~streams[sd].is_fully_processed
                        /\ calls[c].attempts = MaxPollAttempts ) =>
                         \/ /\ calls'[c].pc = "analyzing"
                            /\ fullCalls' = [fullCalls EXCEPT ![s] = @ + 1]
                         \/ /\ calls'[c].pc = "returned" /\ calls'[c].code = 404
                            /\ session[s].file_path \notin files
                            /\ fullCalls' = fullCalls
              /\ ( calls[c].kind = "analyze" /\ calls[c].pc = "sleeping" /\ Moves(c) ) =>
                   Polls(c)
              /\ ( calls[c].kind = "analyze" /\ calls[c].pc = "building" /\ Moves(c) ) =>
                   /\ calls'[c].pc = "returned" /\ calls'[c].code = 200
                   /\ fullCalls' = fullCalls
                   /\ session'[s].analysis = calls'[c].results
                   /\ session'[s].analysis_complete
              /\ ( calls[c].kind = "analyze" /\ calls[c].pc = "analyzing"
                   /\ calls[c].sd # None /\ Moves(c) ) =>
                   /\ calls'[c].pc = "returned" /\ fullCalls' = fullCalls
                   /\ \/ /\ calls'[c].code = 200
                         /\ session'[s].analysis = calls'[c].results
                         /\ session'[s].analysis_complete
                      \/ /\ calls'[c].code = 500
                         /\ calls'[c].detail \in ErrorMessages]_vars

\* a request found the flag set only at the read after its fifteenth sleep
\* and returned the result built from the stream, no full analysis invoked
C25_Witness ==
    \E c \in CallIds :
        /\ calls[c].kind = "analyze" /\ calls[c].pc = "returned" /\ calls[c].code = 200
        /\ calls[c].attempts = MaxPollAttempts
        /\ calls[c].checks = MaxPollAttempts + 1
        /\ fullCalls[calls[c].sid] = 0
        /\ session[calls[c].sid].analysis = calls[c].results
\* session s of the given records holds a stream_data that is fully
\* processed, has the duration of its analysis, and whose four sequences
\* equal the timeline of its analysis element for element
HoldsSynthesized(s, sess, heap) ==
    /\ sess[s].analysis_complete
    /\ sess[s].stream_data # None
    /\ LET sd == heap[sess[s].stream_data]
           timeline == sess[s].analysis.timeline
       IN  /\ sd.is_fully_processed
           /\ sd.duration = sess[s].analysis.duration
           /\ Len(sd.timestamps) = Len(timeline)
           /\ Len(sd.energy_timeline) = Len(timeline)
           /\ Len(sd.emotion_series) = Len(timeline)
           /\ Len(sd.categories) = Len(timeline)
           /\ \A i \in 1..Len(timeline) :
                 /\ sd.timestamps[i] = timeline[i].time
                 /\ sd.energy_timeline[i] = timeline[i].energy
                 /\ sd.emotion_series[i] = timeline[i].emotion_raw
                 /\ sd.categories[i] = timeline[i].category

\* the step in which a full analysis of session s, which has no stream_data,
\* returns its result
FromScratchSucceeds(s) ==
    /\ session[s].stream_data = None
    /\ \E c \in CallIds :
          /\ calls[c].kind = "analyze" /\ calls[c].sid = s /\ calls[c].pc = "analyzing"
          /\ calls'[c].pc = "returned" /\ calls'[c].code = 200

\* C26: when a full analysis succeeds on a session without stream_data, the
\* session gets a synthesized stream_data (fully processed, the result's
\* duration, sequences equal to the result's timeline) and holds it from then
\* on, and a connection made to the session afterwards is a cache hit: ready
\* is its first message and the streaming initializer is not invoked.
C26_SynthesizedStreamHeld ==
    [][\A s \in Ids :
          /\ FromScratchSucceeds(s) =>
                HoldsSynthesized(s, session', streams') /\ initCalls' = initCalls
          /\ HoldsSynthesized(s, session, streams) =>
                HoldsSynthesized(s, session', streams')
          /\ \A c \in CallIds :
                ( /\ HoldsSynthesized(s, session, streams)
                  /\ s \in active_sessions
                  /\ Connects(c) /\ calls'[c].sid = s ) =>
                    /\ initCalls' = initCalls
                    /\ Types(calls'[c].out) = <<"ready">>]_vars
\* C27: provided each sleep ends and each producer awaited returns, every
\* analyze request returns, with a result or an error, even if the stream it
\* waits for never becomes fully processed; and a session whose status is
\* analyzing gets the status complete or error.
C27_EventuallyReturns ==
    /\ \A c \in CallIds :
          (calls[c].kind = "analyze") ~> (calls[c].pc = "returned")
    /\ \A s \in Ids :
          (session[s].status = "analyzing") ~> (session[s].status \in {"complete", "error"})

\* a request waited the fifteen intervals for a stream that is still not
\* fully processed, ran the full analysis and returned
C27_Witness ==
    \E c \in CallIds :
        /\ calls[c].kind = "analyze" /\ calls[c].pc = "returned"
        /\ calls[c].attempts = MaxPollAttempts /\ calls[c].sd # None
        /\ ~streams[calls[c].sd].is_fully_processed
        /\ calls[c].code \in {200, 500}
        /\ session[calls[c].sid].status \in {"complete", "error"}
\* ids that were given out and are no longer in the session map
Deleted == {s \in Allocated : s \notin active_sessions}

\* C28: an id that delete has removed never comes back into the session map,
\* whatever an analysis or a stream initialization started before the delete
\* stores when it finishes; every request, connection and query that arrives
\* for the id afterwards is answered not found and is given none of the
\* caches.
C28_DeletedStaysDeleted ==
    [][\A s \in Deleted :
          /\ s \notin active_sessions'
          /\ \A c \in CallIds :
                ( calls[c].kind = "idle" /\ calls'[c].kind # "idle" /\ calls'[c].sid = s ) =>
                    /\ calls'[c].results = NoResult
                    /\ calls'[c].sd = None
                    /\ \/ calls'[c].pc = "returned" /\ calls'[c].code = 404
                       \/ calls'[c].pc = "closed" /\ Types(calls'[c].out) = <<"error">>
                    /\ fullCalls' = fullCalls /\ initCalls' = initCalls
          /\ ( resp' # resp /\ resp'.sid = s ) =>
                resp'.code = 404 /\ resp'.results = NoResult]_vars

\* an analysis on session s returned its result after a request had already
\* been answered not found for s: the record it filled is out of the map
C28_Witness ==
    \E s \in Deleted : \E c, d \in AnalyzeCalls(s) :
        /\ calls[c].pc = "returned" /\ calls[c].code = 200
        /\ calls[d].pc = "returned" /\ calls[d].code = 404
        /\ c \notin calls[d].after
        /\ session[s].analysis_complete /\ session[s].analysis = calls[c].results
        /\ resp.op = "get_analysis" /\ resp.sid = s /\ resp.code = 404
====
